---------------------------- MODULE Spec2Model ----------------------------
(***************************************************************************)
(* Model of the session-scoped result cache and download ledger of         *)
(* src/streamlit_app.py (the ESMA Data Explorer).                           *)
(*                                                                         *)
(* State: the two containers kept in st.session_state (cached_data, a      *)
(* dict from cache key to {data, timestamp}; download_history, a list of   *)
(* {timestamp, data_type, params}) and the wall clock datetime.now()       *)
(* reads.  `last` holds the call that has just returned, with its          *)
(* arguments and its return value (for cache_data also what the previous   *)
(* call on that key had been given); `put_log` is a history variable that  *)
(* remembers, per key, what the latest cache_data call was given and when. *)
(*                                                                         *)
(* Spec is the component-level specification: the utility functions        *)
(* cache_data, get_cached_data, log_download and the body of               *)
(* show_download_history are called with arbitrary arguments and widget    *)
(* values, interleaved with the passage of time.  Time is counted in       *)
(* whole seconds and the clock never steps backwards.                      *)
(*                                                                         *)
(* AppSpec is the application-level specification: every step is one run   *)
(* of the script (the initialization block followed by one page), started  *)
(* by one user event, with the widget values Streamlit hands to that run.  *)
(* session_keys are the keys st.session_state holds, confirm_visible tells *)
(* whether the last run drew the "Confirm deletion" checkbox,              *)
(* retrievals counts the external loads that have returned, and            *)
(* ESMA_DATA_AVAILABLE tells whether the import of esma_data_py succeeded. *)
(***************************************************************************)
EXTENDS Integers, Sequences, FiniteSets, TLC

VARIABLES now, cached_data, download_history, last, put_log,
          session_keys, confirm_visible, retrievals, ESMA_DATA_AVAILABLE

vars == <<now, cached_data, download_history, last, put_log,
          session_keys, confirm_visible, retrievals, ESMA_DATA_AVAILABLE>>

\* the part of the state only the script runs of AppSpec change
appvars == <<session_keys, confirm_visible, retrievals, ESMA_DATA_AVAILABLE>>

-----------------------------------------------------------------------------
(* Program constants *)

\* total_seconds() / 60 turns an age in seconds into minutes (line 127)
SecondsPerMinute == 60

\* Series.dt.date truncates a timestamp to its calendar day (line 1208)
SecondsPerDay == 86400

\* the value get_cached_data returns on a miss (line 130)
None == "None"

-----------------------------------------------------------------------------
(* Bounds of the model *)

\* seconds that pass in one Tick
TickSeconds == 60

\* the session is followed for this many seconds
MaxElapsed == 120

\* the ledger is followed up to this many records
MaxHistory == 2

\* the session starts one minute before midnight of day 0, so that the
\* records of one session fall on two calendar days
SessionStart == SecondsPerDay - SecondsPerMinute

\* cache keys, as built by show_mifid_explorer: f"mifid_{start}_{end}"
Fingerprints == {"mifid_d0_d0", "mifid_d0_d1"}

\* payloads handed to cache_data: two tables and the null value
Payloads == {"df_a", "df_b", None}

\* a max_age (minutes) larger than any age the clock can produce
HugeAge == (MaxElapsed \div SecondsPerMinute) + 1

\* the max_age_minutes values get_cached_data is called with
MaxAges == {0, 1, 2, HugeAge}

\* the data_type tags passed to log_download
DataTypes == {"MiFID", "FIRDS"}

\* the params mappings passed to log_download
ParamSets == {"params_1"}

\* calendar days the date-range widget can be set to
Days == {0, 1}

\* values of the "Date Range" st.date_input: a complete range (start, end)
\* or a range of which only the start has been picked
DateRanges == {<<a>> : a \in Days} \cup {r \in Days \X Days : r[1] <= r[2]}

\* the keys the initialization block puts into st.session_state
SessionKeys == {"esma_loader", "cached_data", "download_history"}

-----------------------------------------------------------------------------
(* Session state initialization, lines 98-104 *)

Init ==
    /\ now = SessionStart
    /\ cached_data = <<>>
    /\ download_history = <<>>
    /\ last = [op |-> "init"]
    /\ put_log = <<>>
    /\ session_keys = SessionKeys
    /\ confirm_visible = FALSE
    /\ retrievals = 0
    /\ ESMA_DATA_AVAILABLE = TRUE

\* datetime.now() advances between two calls; no call has just returned
Tick ==
    /\ now + TickSeconds - SessionStart <= MaxElapsed
    /\ now' = now + TickSeconds
    /\ last' = [op |-> "tick"]
    /\ UNCHANGED <<cached_data, download_history, put_log>>
    /\ UNCHANGED appvars

-----------------------------------------------------------------------------
(* ResultCache: cache_data and get_cached_data *)

\* cache_data keeping the timestamp of the entry it overwrites
cache_data_keeps_timestamp(cache, key, data, t) ==
    [k \in (DOMAIN cache) \cup {key} |->
        IF k = key
        THEN [data |-> data,
              timestamp |-> IF key \in DOMAIN cache THEN cache[key].timestamp ELSE t]
        ELSE cache[k]]

\* cache_data rebuilding the dict around the new entry only
cache_data_single_slot(cache, key, data, t) ==
    [k \in {key} |-> [data |-> data, timestamp |-> t]]

\* cache_data stamping every stored entry with the time of the call
cache_data_touch_all(cache, key, data, t) ==
    [k \in (DOMAIN cache) \cup {key} |->
        IF k = key THEN [data |-> data, timestamp |-> t]
        ELSE [data |-> cache[k].data, timestamp |-> t]]

\* st.session_state.cached_data[key] = {'data': data, 'timestamp': datetime.now()}
cache_data(cache, key, data, t) ==
    [k \in (DOMAIN cache) \cup {key} |->
        IF k = key THEN [data |-> data, timestamp |-> t] ELSE cache[k]]

\* get_cached_data treating an entry of age zero as not yet usable
get_cached_data_positive_age(cache, key, max_age_minutes, t) ==
    IF key \in DOMAIN cache
    THEN IF /\ (t - cache[key].timestamp) > 0
            /\ (t - cache[key].timestamp) < max_age_minutes * SecondsPerMinute
         THEN cache[key].data
         ELSE None
    ELSE None

\* get_cached_data comparing the age in seconds with max_age_minutes
get_cached_data_seconds(cache, key, max_age_minutes, t) ==
    IF key \in DOMAIN cache
    THEN IF (t - cache[key].timestamp) < max_age_minutes
         THEN cache[key].data
         ELSE None
    ELSE None

\* get_cached_data falling back to some stored entry when key is absent
get_cached_data_any_entry(cache, key, max_age_minutes, t) ==
    LET k == IF key \in DOMAIN cache \/ DOMAIN cache = {} THEN key
             ELSE CHOOSE x \in DOMAIN cache : TRUE
    IN  IF k \in DOMAIN cache
        THEN IF (t - cache[k].timestamp) < max_age_minutes * SecondsPerMinute
             THEN cache[k].data
             ELSE None
        ELSE None

\* get_cached_data telling an expired entry apart from an absent one
get_cached_data_expired_marker(cache, key, max_age_minutes, t) ==
    IF key \in DOMAIN cache
    THEN IF (t - cache[key].timestamp) < max_age_minutes * SecondsPerMinute
         THEN cache[key].data
         ELSE "Expired"
    ELSE None

\* get_cached_data with an inclusive comparison, age <= max_age_minutes
get_cached_data_inclusive(cache, key, max_age_minutes, t) ==
    IF key \in DOMAIN cache
    THEN IF (t - cache[key].timestamp) <= max_age_minutes * SecondsPerMinute
         THEN cache[key].data
         ELSE None
    ELSE None

\* the value get_cached_data returns: the stored data if key is present and
\* (now - timestamp).total_seconds() / 60 < max_age_minutes, otherwise None
get_cached_data(cache, key, max_age_minutes, t) ==
    IF key \in DOMAIN cache
    THEN IF (t - cache[key].timestamp) < max_age_minutes * SecondsPerMinute
         THEN cache[key].data
         ELSE None
    ELSE None

CacheData ==
    \E key \in Fingerprints, data \in Payloads :
        /\ cached_data' = cache_data(cached_data, key, data, now)
        /\ put_log' = [k \in (DOMAIN put_log) \cup {key} |->
                          IF k = key THEN [data |-> data, at |-> now] ELSE put_log[k]]
        /\ last' = [op |-> "cache_data", key |-> key, data |-> data,
                    replaced |-> IF key \in DOMAIN put_log THEN <<put_log[key]>> ELSE <<>>]
        /\ UNCHANGED <<now, download_history>>
        /\ UNCHANGED appvars

\* get_cached_data stamping the entry it returns with the time of the read
GetCachedData_refreshes ==
    \E key \in Fingerprints, max_age \in MaxAges :
        LET ret == get_cached_data(cached_data, key, max_age, now)
        IN  /\ last' = [op |-> "get_cached_data", key |-> key, max_age |-> max_age,
                        ret |-> ret]
            /\ cached_data' = IF ret # None
                              THEN [cached_data EXCEPT ![key].timestamp = now]
                              ELSE cached_data
            /\ UNCHANGED <<now, download_history, put_log>>
            /\ UNCHANGED appvars

\* one call of get_cached_data(key, max_age), lines 123-130: it reads
\* st.session_state.cached_data and assigns nothing
GetCachedData ==
    \E key \in Fingerprints, max_age \in MaxAges :
        /\ last' = [op |-> "get_cached_data", key |-> key, max_age |-> max_age,
                    ret |-> get_cached_data(cached_data, key, max_age, now)]
        /\ UNCHANGED <<now, cached_data, download_history, put_log>>
        /\ UNCHANGED appvars

-----------------------------------------------------------------------------
(* ActivityLedger: log_download and show_download_history *)

\* log_download inserting the new record at the front of the list
log_download_prepend(history, data_type, params, t) ==
    <<[timestamp |-> t, data_type |-> data_type, params |-> params]>> \o history

\* st.session_state.download_history.append({...}), lines 110-114
log_download(history, data_type, params, t) ==
    Append(history, [timestamp |-> t, data_type |-> data_type, params |-> params])

LogDownload ==
    \E data_type \in DataTypes, params \in ParamSets :
        /\ Len(download_history) < MaxHistory
        /\ download_history' = log_download(download_history, data_type, params, now)
        /\ last' = [op |-> "log_download", data_type |-> data_type, params |-> params]
        /\ UNCHANGED <<now, cached_data, put_log>>
        /\ UNCHANGED appvars

\* df['timestamp'].dt.date
DateOf(t) == t \div SecondsPerDay

\* the row mask without its data_type term
RowSelected_any_type(r, filter_type, date_range) ==
    /\ DateOf(r.timestamp) >= date_range[1]
    /\ DateOf(r.timestamp) <= date_range[2]

\* the row mask with an exclusive end date
RowSelected_exclusive_end(r, filter_type, date_range) ==
    /\ r.data_type \in filter_type
    /\ DateOf(r.timestamp) >= date_range[1]
    /\ DateOf(r.timestamp) < date_range[2]

\* the row mask of lines 1206-1210; date_range[0] and date_range[1] of the
\* source are date_range[1] and date_range[2] here
RowSelected(r, filter_type, date_range) ==
    /\ r.data_type \in filter_type
    /\ DateOf(r.timestamp) >= date_range[1]
    /\ DateOf(r.timestamp) <= date_range[2]

\* filtered_df: the rows of the ledger the mask keeps, in the ledger's order
filtered_df(history, filter_type, date_range) ==
    SelectSeq(history, LAMBDA r : RowSelected(r, filter_type, date_range))

\* date_range[1] raises IndexError when only the start date is picked
RaisesIndexError(date_range) == Len(date_range) < 2

\* the Clear History block without its confirmation checkbox
clear_history_unconfirmed(history, clear_btn, confirm) ==
    IF clear_btn THEN <<>> ELSE history

\* the Clear History block removing only the oldest record
clear_history_drops_first(history, clear_btn, confirm) ==
    IF clear_btn /\ confirm THEN Tail(history) ELSE history

\* the Clear History block emptying the ledger on the button or the box alone
clear_history_either(history, clear_btn, confirm) ==
    IF clear_btn \/ confirm THEN <<>> ELSE history

\* lines 1220-1224: the ledger after the Clear History block
clear_history(history, clear_btn, confirm) ==
    IF clear_btn /\ confirm THEN <<>> ELSE history

\* the options of the "Filter by Data Type" multiselect: df['data_type'].unique()
TypesIn(history) == {history[i].data_type : i \in 1..Len(history)}

\* One run of show_download_history.  An empty ledger returns before any
\* widget is drawn (lines 1167-1169); otherwise the filters are read, the
\* mask is evaluated (and raises if date_range has no second element), the
\* filtered table is shown, and the Export and Clear blocks follow.  The
\* Export block (lines 1216-1217) only renders a download button.
ShowDownloadHistory ==
    IF download_history = <<>>
    THEN /\ last' = [op |-> "show_download_history", rendered |-> FALSE,
                     raised |-> FALSE, shown |-> <<>>]
         /\ UNCHANGED <<now, cached_data, download_history, put_log>>
         /\ UNCHANGED appvars
    ELSE \E filter_type \in SUBSET TypesIn(download_history), date_range \in DateRanges :
            IF RaisesIndexError(date_range)
            THEN /\ last' = [op |-> "show_download_history", rendered |-> TRUE,
                             raised |-> TRUE, shown |-> <<>>,
                             filter_type |-> filter_type, date_range |-> date_range]
                 /\ UNCHANGED <<now, cached_data, download_history, put_log>>
                 /\ UNCHANGED appvars
            ELSE \E clear_btn \in BOOLEAN, confirm \in BOOLEAN :
                 /\ last' = [op |-> "show_download_history", rendered |-> TRUE,
                             raised |-> FALSE,
                             shown |-> filtered_df(download_history, filter_type, date_range),
                             filter_type |-> filter_type, date_range |-> date_range,
                             clear_btn |-> clear_btn, confirm |-> confirm]
                 /\ download_history' = clear_history(download_history, clear_btn, confirm)
                 /\ UNCHANGED <<now, cached_data, put_log>>
                 /\ UNCHANGED appvars

-----------------------------------------------------------------------------

Next ==
    \/ Tick
    \/ CacheData
    \/ GetCachedData
    \/ LogDownload
    \/ ShowDownloadHistory

Spec == Init /\ [][Next]_vars

-----------------------------------------------------------------------------
(* The application: one script run per step *)

\* the "Cache Duration (minutes)" slider: min_value (line 309)
SliderMin == 5

\* the "Cache Duration (minutes)" slider: max_value (line 310)
SliderMax == 120

\* values of cache_duration the slider hands to show_mifid_explorer
CacheDurations == {SliderMin, SliderMax}

\* the user waits this long between two runs: the shortest cache duration
WaitSeconds == SliderMin * SecondsPerMinute

\* the user waits at most this many times
MaxWaits == 2

\* what the external loader does when called: it returns a table or the
\* null value, or it raises
LoaderOutcomes == {"df_a", None, "raise"}

\* cache_key = f"mifid_{start_date}_{end_date}" (line 319), start_date day 0
MifidKey(end_date) == IF end_date = 0 THEN "mifid_d0_d0" ELSE "mifid_d0_d1"

\* the events of the Download History page that start a run
HistoryEvents == {"open", "click_export", "click_clear", "check_confirm"}

\* the pages that load through the esma_data_py loader
LoadPages == {"show_mifid_explorer", "show_firds_explorer",
              "show_ssr_explorer", "show_fca_firds_explorer"}

\* the length of one batch period in days: (end_date - start_date).days // 30
DaysPerJob == 30

\* selections of the "Data Sources" and "Countries" multiselects of the
\* batch page, and values of (end_date - start_date).days: the end date
\* before, on and after the start date
BatchSources == SUBSET {"FIRDS"}
BatchCountries == {{}, {"DE", "FR"}}
BatchSpans == {0 - DaysPerJob - 1, 0 - 1, 0, DaysPerJob}

\* a new session: st.session_state is empty; the import of esma_data_py
\* (lines 20-26) has succeeded or failed
AppInit ==
    /\ now = SessionStart
    /\ cached_data = <<>>
    /\ download_history = <<>>
    /\ last = [op |-> "init"]
    /\ put_log = <<>>
    /\ session_keys = {}
    /\ confirm_visible = FALSE
    /\ retrievals = 0
    /\ ESMA_DATA_AVAILABLE \in BOOLEAN

\* the initialization block resetting the container on every run
init_state_always(keys, name, value, empty) == empty

\* if name not in st.session_state: st.session_state[name] = empty
\* (lines 101-104): the value the rest of the run finds under name
init_state(keys, name, value, empty) ==
    IF name \notin keys THEN empty ELSE value

\* the keys st.session_state holds after the initialization block (lines
\* 99-104): the loader is created only if the package was imported
init_keys(keys, available) ==
    keys \cup {"cached_data", "download_history"}
         \cup (IF available THEN {"esma_loader"} ELSE {})

\* the cache and the ledger a run finds after the initialization block
CacheFound == init_state(session_keys, "cached_data", cached_data, <<>>)
LedgerFound == init_state(session_keys, "download_history", download_history, <<>>)
KeysFound == init_keys(session_keys, ESMA_DATA_AVAILABLE)

\* a loading page that never returns early
early_return_never(available) == FALSE

\* if not ESMA_DATA_AVAILABLE: st.error(...); return  (lines 277-279,
\* 385-387, 515-517, 616-618)
early_return(available) == ~available

\* loader = st.session_state.esma_loader followed by the call of the loader:
\* reading a key the session does not hold raises, like the loader itself
\* may
load(keys, outcome) == IF "esma_loader" \in keys THEN outcome ELSE "raise"

\* len(df) of display_dataframe_stats and of the success messages raises on
\* the null value
len_raises(df) == df = None

\* st.button reads True only in the run its own click started
button(event, click) == event = click

\* st.checkbox reads the value the browser holds for it: checked only if
\* the box was on the page and the user ticked it; otherwise its default
checkbox(event, visible) == visible /\ event = "check_confirm"

\* range(n) of the batch loop running abs(n) times
range_abs(n) == [i \in 1..(IF n < 0 THEN 0 - n ELSE n) |-> i - 1]

\* range(n): the values 0, ..., n-1 in order, none if n <= 0
range(n) == [i \in 1..n |-> i - 1]

\* total_jobs of the batch page (line 1055); // rounds towards minus
\* infinity, as \div does
total_jobs(data_sources, countries, days) ==
    Cardinality(data_sources) * Cardinality(countries) * ((days \div DaysPerJob) + 1)

\* the values handed to progress_bar.progress by the loop of lines
\* 1061-1065, each the fraction (i + 1) / total_jobs as <<numerator,
\* denominator>>
batch_progress(n) == [k \in DOMAIN range(n) |-> <<range(n)[k] + 1, n>>]

\* time passes between two runs
Wait ==
    /\ (now - SessionStart) \div WaitSeconds < MaxWaits
    /\ now' = now + WaitSeconds
    /\ last' = [op |-> "tick"]
    /\ UNCHANGED <<cached_data, download_history, put_log>>
    /\ UNCHANGED appvars

\* a run of a page that reads the containers at most (home, analysis,
\* documentation, ...), or of a loading page without its button pressed
RunPlain ==
    /\ cached_data' = CacheFound
    /\ download_history' = LedgerFound
    /\ session_keys' = KeysFound
    /\ confirm_visible' = FALSE
    /\ last' = [op |-> "show_home_page"]
    /\ UNCHANGED <<now, put_log, retrievals, ESMA_DATA_AVAILABLE>>

\* a run of a session without the package that ends at st.set_page_config
\* (line 35): the st.warning of line 26 has come first, and the Streamlit
\* versions that want set_page_config as the first command raise there,
\* before the initialization block; the other versions run on
RunAborts ==
    /\ ~ESMA_DATA_AVAILABLE
    /\ last' = [op |-> "set_page_config", raised |-> TRUE]
    /\ UNCHANGED <<now, cached_data, download_history, put_log>>
    /\ UNCHANGED appvars

\* a run of a loading page that returns at its availability check
ReturnsEarly(page) ==
    /\ cached_data' = CacheFound
    /\ download_history' = LedgerFound
    /\ last' = [op |-> page, early_return |-> TRUE]
    /\ UNCHANGED <<put_log, retrievals>>

\* a run of show_mifid_explorer with "Load MiFID File List" pressed
\* (lines 274-378): the availability check, the cache lookup, on a miss the
\* external load and cache_data, then log_download on either path; an
\* exception of the loader is caught at line 376 before anything is stored
RunMiFID ==
    \E end_date \in Days, cache_duration \in CacheDurations,
       returned \in LoaderOutcomes :
        LET key == MifidKey(end_date)
            cached == get_cached_data(CacheFound, key, cache_duration, now)
            outcome == load(KeysFound, returned)
        IN  /\ Len(LedgerFound) < MaxHistory
            /\ session_keys' = KeysFound
            /\ confirm_visible' = FALSE
            /\ UNCHANGED <<now, ESMA_DATA_AVAILABLE>>
            /\ IF early_return(ESMA_DATA_AVAILABLE)
               THEN ReturnsEarly("show_mifid_explorer")
               ELSE IF cached # None
               THEN /\ cached_data' = CacheFound
                    /\ download_history' = log_download(LedgerFound, "MiFID", "params_1", now)
                    /\ last' = [op |-> "show_mifid_explorer", early_return |-> FALSE,
                                key |-> key, cache_duration |-> cache_duration,
                                loader_called |-> FALSE, outcome |-> "none",
                                df |-> cached, error |-> FALSE]
                    /\ UNCHANGED <<put_log, retrievals>>
               ELSE IF outcome = "raise"
               THEN /\ cached_data' = CacheFound
                    /\ download_history' = LedgerFound
                    /\ last' = [op |-> "show_mifid_explorer", early_return |-> FALSE,
                                key |-> key, cache_duration |-> cache_duration,
                                loader_called |-> TRUE, outcome |-> outcome,
                                df |-> "none", error |-> TRUE]
                    /\ UNCHANGED <<put_log, retrievals>>
               ELSE /\ cached_data' = cache_data(CacheFound, key, outcome, now)
                    /\ put_log' = [k \in (DOMAIN put_log) \cup {key} |->
                                     IF k = key THEN [data |-> outcome, at |-> now]
                                     ELSE put_log[k]]
                    /\ download_history' = log_download(LedgerFound, "MiFID", "params_1", now)
                    /\ retrievals' = retrievals + 1
                    /\ last' = [op |-> "show_mifid_explorer", early_return |-> FALSE,
                                key |-> key, cache_duration |-> cache_duration,
                                loader_called |-> TRUE, outcome |-> outcome,
                                df |-> outcome, error |-> len_raises(outcome)]

\* a run of show_firds_explorer with "Load Latest FIRDS Files" pressed
\* (lines 382-470): the availability check, the external load, then
\* log_download
RunFIRDS ==
    \E returned \in LoaderOutcomes :
        LET outcome == load(KeysFound, returned)
        IN  /\ Len(LedgerFound) < MaxHistory
            /\ session_keys' = KeysFound
            /\ confirm_visible' = FALSE
            /\ UNCHANGED <<now, ESMA_DATA_AVAILABLE>>
            /\ IF early_return(ESMA_DATA_AVAILABLE)
               THEN ReturnsEarly("show_firds_explorer")
               ELSE /\ cached_data' = CacheFound
                    /\ last' = [op |-> "show_firds_explorer", early_return |-> FALSE,
                                loader_called |-> TRUE, outcome |-> outcome,
                                error |-> (outcome = "raise" \/ len_raises(outcome))]
                    /\ UNCHANGED put_log
                    /\ IF outcome = "raise"
                       THEN /\ download_history' = LedgerFound
                            /\ UNCHANGED retrievals
                       ELSE /\ download_history' = log_download(LedgerFound, "FIRDS", "params_1", now)
                            /\ retrievals' = retrievals + 1

\* show_ssr_explorer recording the download before it calls the loader
RunSSR_logs_first ==
    \E returned \in LoaderOutcomes :
        LET outcome == load(KeysFound, returned)
        IN  /\ Len(LedgerFound) < MaxHistory
            /\ session_keys' = KeysFound
            /\ confirm_visible' = FALSE
            /\ UNCHANGED <<now, ESMA_DATA_AVAILABLE>>
            /\ IF early_return(ESMA_DATA_AVAILABLE)
               THEN ReturnsEarly("show_ssr_explorer")
               ELSE /\ cached_data' = CacheFound
                    /\ last' = [op |-> "show_ssr_explorer", early_return |-> FALSE,
                                loader_called |-> TRUE, outcome |-> outcome,
                                error |-> (outcome = "raise" \/ len_raises(outcome))]
                    /\ UNCHANGED put_log
                    /\ download_history' = log_download(LedgerFound, "SSR", "params_1", now)
                    /\ retrievals' = IF outcome = "raise" THEN retrievals ELSE retrievals + 1

\* a run of show_ssr_explorer with "Load SSR Exempted Shares" pressed
\* (lines 512-609): the availability check, the external load, then
\* log_download
RunSSR ==
    \E returned \in LoaderOutcomes :
        LET outcome == load(KeysFound, returned)
        IN  /\ Len(LedgerFound) < MaxHistory
            /\ session_keys' = KeysFound
            /\ confirm_visible' = FALSE
            /\ UNCHANGED <<now, ESMA_DATA_AVAILABLE>>
            /\ IF early_return(ESMA_DATA_AVAILABLE)
               THEN ReturnsEarly("show_ssr_explorer")
               ELSE /\ cached_data' = CacheFound
                    /\ last' = [op |-> "show_ssr_explorer", early_return |-> FALSE,
                                loader_called |-> TRUE, outcome |-> outcome,
                                error |-> (outcome = "raise" \/ len_raises(outcome))]
                    /\ UNCHANGED put_log
                    /\ IF outcome = "raise"
                       THEN /\ download_history' = LedgerFound
                            /\ UNCHANGED retrievals
                       ELSE /\ download_history' = log_download(LedgerFound, "SSR", "params_1", now)
                            /\ retrievals' = retrievals + 1

\* show_fca_firds_explorer keeping the loaded file list in the cache
RunFCA_cached ==
    \E returned \in LoaderOutcomes :
        LET outcome == load(KeysFound, returned)
        IN  /\ Len(LedgerFound) < MaxHistory
            /\ session_keys' = KeysFound
            /\ confirm_visible' = FALSE
            /\ UNCHANGED <<now, ESMA_DATA_AVAILABLE>>
            /\ IF early_return(ESMA_DATA_AVAILABLE)
               THEN ReturnsEarly("show_fca_firds_explorer")
               ELSE /\ last' = [op |-> "show_fca_firds_explorer", early_return |-> FALSE,
                                loader_called |-> TRUE, outcome |-> outcome,
                                error |-> (outcome = "raise" \/ len_raises(outcome))]
                    /\ UNCHANGED put_log
                    /\ IF outcome = "raise"
                       THEN /\ cached_data' = CacheFound
                            /\ download_history' = LedgerFound
                            /\ UNCHANGED retrievals
                       ELSE /\ cached_data' = cache_data(CacheFound, "fca_d0_d0", outcome, now)
                            /\ download_history' = log_download(LedgerFound, "FCA FIRDS", "params_1", now)
                            /\ retrievals' = retrievals + 1

\* a run of show_fca_firds_explorer with "Load FCA FIRDS File List" pressed
\* (lines 613-684): the availability check, the external load, then
\* log_download
RunFCA ==
    \E returned \in LoaderOutcomes :
        LET outcome == load(KeysFound, returned)
        IN  /\ Len(LedgerFound) < MaxHistory
            /\ session_keys' = KeysFound
            /\ confirm_visible' = FALSE
            /\ UNCHANGED <<now, ESMA_DATA_AVAILABLE>>
            /\ IF early_return(ESMA_DATA_AVAILABLE)
               THEN ReturnsEarly("show_fca_firds_explorer")
               ELSE /\ cached_data' = CacheFound
                    /\ last' = [op |-> "show_fca_firds_explorer", early_return |-> FALSE,
                                loader_called |-> TRUE, outcome |-> outcome,
                                error |-> (outcome = "raise" \/ len_raises(outcome))]
                    /\ UNCHANGED put_log
                    /\ IF outcome = "raise"
                       THEN /\ download_history' = LedgerFound
                            /\ UNCHANGED retrievals
                       ELSE /\ download_history' = log_download(LedgerFound, "FCA FIRDS", "params_1", now)
                            /\ retrievals' = retrievals + 1

\* a run of show_batch_processing with "Start Batch Processing" pressed
\* (lines 993-1071): the job count, then the whole progress loop
RunBatch ==
    \E data_sources \in BatchSources, countries \in BatchCountries,
       days \in BatchSpans :
        LET n == total_jobs(data_sources, countries, days)
        IN  /\ cached_data' = CacheFound
            /\ download_history' = LedgerFound
            /\ session_keys' = KeysFound
            /\ confirm_visible' = FALSE
            /\ last' = [op |-> "show_batch_processing", total_jobs |-> n,
                        progress |-> batch_progress(n)]
            /\ UNCHANGED <<now, put_log, retrievals, ESMA_DATA_AVAILABLE>>

\* a run of show_download_history started by one event of that page.  The
\* checkbox is drawn, and read, only inside the block of the pressed Clear
\* button (lines 1220-1221).  The type filter stays at its default, every
\* type of the ledger selected (line 1195); ShowDownloadHistory explores
\* the other selections.
RunHistory ==
    \E event \in HistoryEvents :
        /\ event = "check_confirm" => confirm_visible
        /\ session_keys' = KeysFound
        /\ cached_data' = CacheFound
        /\ UNCHANGED <<now, put_log, retrievals, ESMA_DATA_AVAILABLE>>
        /\ IF LedgerFound = <<>>
           THEN /\ last' = [op |-> "show_download_history", rendered |-> FALSE,
                            raised |-> FALSE, shown |-> <<>>, event |-> event]
                /\ download_history' = LedgerFound
                /\ confirm_visible' = FALSE
           ELSE \E filter_type \in {TypesIn(LedgerFound)}, date_range \in DateRanges :
                IF RaisesIndexError(date_range)
                THEN /\ last' = [op |-> "show_download_history", rendered |-> TRUE,
                                 raised |-> TRUE, shown |-> <<>>, event |-> event,
                                 filter_type |-> filter_type, date_range |-> date_range]
                     /\ download_history' = LedgerFound
                     /\ confirm_visible' = FALSE
                ELSE LET clear_btn == button(event, "click_clear")
                         confirm == clear_btn /\ checkbox(event, confirm_visible)
                     IN  /\ last' = [op |-> "show_download_history", rendered |-> TRUE,
                                     raised |-> FALSE, event |-> event,
                                     shown |-> filtered_df(LedgerFound, filter_type, date_range),
                                     filter_type |-> filter_type, date_range |-> date_range,
                                     clear_btn |-> clear_btn, confirm |-> confirm]
                         /\ download_history' = clear_history(LedgerFound, clear_btn, confirm)
                         /\ confirm_visible' = clear_btn

AppNext ==
    \/ Wait
    \/ RunAborts
    \/ RunPlain
    \/ RunMiFID
    \/ RunFIRDS
    \/ RunSSR
    \/ RunFCA
    \/ RunBatch
    \/ RunHistory

AppSpec == AppInit /\ [][AppNext]_vars

-----------------------------------------------------------------------------
(* What the callers of the cache observe.  A state in which                *)
(* last.op = "get_cached_data" is the state in which that call has just    *)
(* returned: the clock and both containers are as the call saw them.       *)

JustGot == last.op = "get_cached_data"

\* the latest cache_data on key stored a payload that is not the null value
StoredTable(key) == key \in DOMAIN put_log /\ put_log[key].data # None

\* seconds since the latest cache_data on key
AgeOf(key) == now - put_log[key].at

\* C1: a get_cached_data evaluated right after cache_data(f, p), with no time
\* elapsed and no later cache_data on f, returns p for every max_age > 0.
C1_GetAfterPutReturnsPayload ==
    (JustGot /\ last.key \in DOMAIN put_log /\ AgeOf(last.key) = 0 /\ last.max_age > 0)
        => last.ret = put_log[last.key].data

C1_Witness ==
    /\ JustGot
    /\ StoredTable(last.key)
    /\ AgeOf(last.key) = 0
    /\ last.max_age = 1
    /\ last.ret = put_log[last.key].data

\* C2: with the latest cache_data(f, p) at t0, get_cached_data(f, d) at time t
\* returns p when t - t0 < d and the miss value when t - t0 >= d; the
\* comparison is strict, so t - t0 = d is a miss.
C2_FreshnessBoundary ==
    (JustGot /\ last.key \in DOMAIN put_log) =>
        LET window == last.max_age * SecondsPerMinute
        IN  /\ AgeOf(last.key) < window  => last.ret = put_log[last.key].data
            /\ AgeOf(last.key) >= window => last.ret = None

\* a read at exactly t0 + d, of a table that is still stored
C2_Witness ==
    /\ JustGot
    /\ StoredTable(last.key)
    /\ last.max_age > 0
    /\ AgeOf(last.key) = last.max_age * SecondsPerMinute
    /\ last.ret = None

\* C3: a get_cached_data on a key no cache_data was ever called with returns
\* the miss value, whatever was stored under other keys and whatever max_age.
C3_MissBeforeAnyPut ==
    (JustGot /\ last.key \notin DOMAIN put_log) => last.ret = None

\* another key holds a table that is fresh for the window asked for
C3_Witness ==
    /\ JustGot
    /\ last.key \notin DOMAIN put_log
    /\ last.max_age = HugeAge
    /\ \E other \in DOMAIN put_log : StoredTable(other) /\ AgeOf(other) = 0
    /\ last.ret = None

C5_AbsentAndExpiredSameMiss ==
    JustGot =>
        /\ last.key \notin DOMAIN put_log => last.ret = None
        /\ (last.key \in DOMAIN put_log
              /\ AgeOf(last.key) >= last.max_age * SecondsPerMinute)
             => /\ last.ret = None
                /\ last.key \in DOMAIN cached_data
                /\ cached_data[last.key].data = put_log[last.key].data

\* a read of an expired table, while the other key has never been stored
C5_Witness ==
    /\ JustGot
    /\ StoredTable(last.key)
    /\ last.max_age = 1
    /\ AgeOf(last.key) > last.max_age * SecondsPerMinute
    /\ last.ret = None
    /\ cached_data[last.key].data = put_log[last.key].data
    /\ \E other \in Fingerprints : other \notin DOMAIN cached_data

\* C6: get_cached_data(f, 0) misses in every state; with a max_age larger than
\* any age the clock can produce it returns the stored payload whenever f has
\* an entry.
C6_ExtremeWindows ==
    JustGot =>
        /\ last.max_age = 0 => last.ret = None
        /\ (last.max_age = HugeAge /\ last.key \in DOMAIN cached_data)
             => last.ret = cached_data[last.key].data

\* a zero window misses a table stored this very second
C6_Witness ==
    /\ JustGot
    /\ last.max_age = 0
    /\ StoredTable(last.key)
    /\ AgeOf(last.key) = 0
    /\ last.ret = None

\* the largest window hits the oldest entry the session can hold
C6_WitnessHuge ==
    /\ JustGot
    /\ last.max_age = HugeAge
    /\ StoredTable(last.key)
    /\ AgeOf(last.key) >= 2 * SecondsPerMinute
    /\ last.ret = put_log[last.key].data

-----------------------------------------------------------------------------
(* What the ledger's callers observe.  A step that ends with               *)
(* last'.op = "show_download_history" is one run of that page: the ledger   *)
(* it filtered is the unprimed download_history.                            *)

JustShown == last.op = "show_download_history" /\ last.rendered /\ ~last.raised

\* the run that has just ended emptied the ledger through the Clear block
JustCleared == JustShown /\ last.clear_btn /\ last.confirm

IsPrefix(s, t) == Len(s) <= Len(t) /\ \A i \in 1..Len(s) : s[i] = t[i]

\* s is t with some elements left out, the rest in t's order
RECURSIVE IsSubSeq(_, _)
IsSubSeq(s, t) ==
    IF s = <<>> THEN TRUE
    ELSE IF t = <<>> THEN FALSE
    ELSE IF Head(s) = Head(t) THEN IsSubSeq(Tail(s), Tail(t))
    ELSE IsSubSeq(s, Tail(t))

\* the calendar days of the records of a ledger
DatesIn(history) == {DateOf(history[i].timestamp) : i \in 1..Len(history)}

\* a complete date range that excludes no record of the ledger
Unrestricted(history, date_range) ==
    /\ Len(date_range) = 2
    /\ \A d \in DatesIn(history) : date_range[1] <= d /\ d <= date_range[2]

\* C7: no step removes a key from the cache: the key set only grows, whether
\* the step is a read, a store under another key, a record, a run of the
\* history page that clears the ledger, or the passage of time.
C7_NoEviction ==
    [][DOMAIN cached_data \subseteq DOMAIN cached_data']_vars

\* both keys are still stored after one entry has outlived a one-minute
\* window, a store under the other key followed, and the ledger was cleared
C7_Witness ==
    /\ JustCleared
    /\ download_history = <<>>
    /\ DOMAIN cached_data = Fingerprints
    /\ \E k \in Fingerprints :
          /\ now - cached_data[k].timestamp >= SecondsPerMinute
          /\ \E o \in Fingerprints : cached_data[o].timestamp > cached_data[k].timestamp

\* C8: log_download appends exactly one record, carrying the current time and
\* the given data_type and params, at the end of the ledger; an unfiltered
\* run of the history page shows the records in the order they were logged.
C8_RecordPreservesOrder ==
    [][/\ last'.op = "log_download" =>
            /\ Len(download_history') = Len(download_history) + 1
            /\ \A i \in 1..Len(download_history) :
                  download_history'[i] = download_history[i]
            /\ download_history'[Len(download_history')] =
                  [timestamp |-> now, data_type |-> last'.data_type,
                   params |-> last'.params]
       /\ (JustShown' /\ last'.filter_type = TypesIn(download_history)
             /\ Unrestricted(download_history, last'.date_range))
            => last'.shown = download_history]_vars

\* two records logged at different times, shown first-logged first
C8_Witness ==
    /\ JustShown
    /\ ~JustCleared
    /\ Len(download_history) = 2
    /\ download_history[1].timestamp < download_history[2].timestamp
    /\ download_history[1].data_type # download_history[2].data_type
    /\ last.shown = download_history

\* C9: across every step that is not a confirmed clear, the ledger before the
\* step is a prefix of the ledger after it.
C9_AppendOnly ==
    [][JustCleared' \/ IsPrefix(download_history, download_history')]_vars

\* a filtered run of the history page with Clear pressed but not confirmed
\* has left a two-record ledger as it was
C9_Witness ==
    /\ JustShown
    /\ last.clear_btn
    /\ ~last.confirm
    /\ Len(download_history) = 2
    /\ Len(last.shown) < 2
    /\ DOMAIN cached_data # {}

\* C10: with a date range that excludes no record, a run of the history page
\* shows exactly the records whose data_type is in the selected types, in
\* the ledger's order.
C10_TypeFilter ==
    [][(JustShown' /\ Unrestricted(download_history, last'.date_range))
         => last'.shown =
              SelectSeq(download_history,
                        LAMBDA r : r.data_type \in last'.filter_type)]_vars

\* one type selected out of two, the records lying on two calendar days
C10_Witness ==
    /\ JustShown
    /\ ~JustCleared
    /\ Len(download_history) = 2
    /\ download_history[1].data_type # download_history[2].data_type
    /\ DatesIn(download_history) = Days
    /\ last.date_range = <<0, 1>>
    /\ Cardinality(last.filter_type) = 1
    /\ last.shown = <<download_history[2]>>

-----------------------------------------------------------------------------
(* The date-range filter, clear, independence and failure of the history   *)
(* page, checked on the same steps as above.                               *)

\* the instant a calendar day starts at
StartOf(day) == day * SecondsPerDay

\* C11 (as stated): a run with date_range = [a, b] shows exactly the records
\* whose timestamp t satisfies a <= t <= b, the bounds taken as instants.
C11_TimeRangeOnTimestamp ==
    [][(JustShown' /\ last'.filter_type = TypesIn(download_history))
         => last'.shown =
              SelectSeq(download_history,
                        LAMBDA r : /\ StartOf(last'.date_range[1]) <= r.timestamp
                                   /\ r.timestamp <= StartOf(last'.date_range[2]))]_vars

\* C11 (amended): a run with date_range = [a, b] shows exactly the records
\* whose calendar day d satisfies a <= d <= b, both bounds inclusive; the
\* time of day plays no part, so records of one day are shown together or
\* not at all.
C11_DateRangeFilter ==
    [][(JustShown' /\ last'.filter_type = TypesIn(download_history))
         => /\ \A i \in 1..Len(last'.shown) :
                  /\ last'.date_range[1] <= DateOf(last'.shown[i].timestamp)
                  /\ DateOf(last'.shown[i].timestamp) <= last'.date_range[2]
            /\ \A i \in 1..Len(download_history) :
                  (/\ last'.date_range[1] <= DateOf(download_history[i].timestamp)
                   /\ DateOf(download_history[i].timestamp) <= last'.date_range[2])
                  => \E j \in 1..Len(last'.shown) : last'.shown[j] = download_history[i]
            /\ IsSubSeq(last'.shown, download_history)]_vars

\* two records of the same day, logged a minute apart, both shown by the
\* range that ends on that day
C11_Witness ==
    /\ JustShown
    /\ ~JustCleared
    /\ Len(download_history) = 2
    /\ download_history[1].timestamp < download_history[2].timestamp
    /\ DateOf(download_history[1].timestamp) = DateOf(download_history[2].timestamp)
    /\ last.date_range = <<1, 1>>
    /\ last.shown = download_history

\* C12: a confirmed clear leaves the ledger empty whatever it held, and a run
\* of the history page on an empty ledger shows nothing and does not fail.
C12_ClearThenQueryEmpty ==
    [][/\ JustCleared' => download_history' = <<>>
       /\ (last'.op = "show_download_history" /\ download_history = <<>>)
            => (last'.shown = <<>> /\ ~last'.raised /\ download_history' = <<>>)]_vars

\* a two-record ledger, shown in full and cleared by the same run
C12_Witness ==
    /\ JustCleared
    /\ Len(last.shown) = 2
    /\ download_history = <<>>

\* C13: cache_data(f, p) changes the entry of f only and leaves every other
\* entry and the ledger as they were; log_download and a run of the history
\* page (clearing or not) leave the cache as it was.
C13_Independence ==
    [][/\ last'.op = "cache_data" =>
            /\ DOMAIN cached_data' = (DOMAIN cached_data) \cup {last'.key}
            /\ \A k \in (DOMAIN cached_data) \ {last'.key} :
                  cached_data'[k] = cached_data[k]
            /\ download_history' = download_history
       /\ last'.op \in {"log_download", "show_download_history"}
            => cached_data' = cached_data]_vars

\* a store under one key while the other key holds an older entry and the
\* ledger holds a record
C13_Witness ==
    /\ last.op = "cache_data"
    /\ DOMAIN cached_data = Fingerprints
    /\ \E k \in Fingerprints \ {last.key} : cached_data[k].timestamp < now
    /\ cached_data[last.key].timestamp = now
    /\ download_history # <<>>

\* C14: a run of the history page never fails, whatever the ledger, the
\* selected types and the state of the date-range input.
C14_QueryNeverFails ==
    last.op = "show_download_history" => ~last.raised

\* the entry of key in cache is present and younger than max_age_minutes
Fresh(cache, key, max_age_minutes, t) ==
    /\ key \in DOMAIN cache
    /\ t - cache[key].timestamp < max_age_minutes * SecondsPerMinute

\* the run that has just ended was a pressed MiFID load
JustLoadedMiFID == last.op = "show_mifid_explorer" /\ ~last.early_return

\* C15: the ledger holds one record per completed external retrieval (no run
\* of the application clears the ledger, so both counts run from the session
\* start); a MiFID load served from the cache adds no record.
C15_OneRecordPerRetrieval ==
    Len(download_history) = retrievals

\* C16: a pressed MiFID load calls the external loader exactly when the entry
\* of its key is absent or expired; on a fresh entry it shows the cached
\* payload and leaves the cache as it was; after a miss and a successful load
\* the cache holds the loaded payload under the key, stamped with the time of
\* the run.
C16_CacheAside ==
    [][JustLoadedMiFID' =>
        LET key == last'.key
            fresh == Fresh(cached_data, key, last'.cache_duration, now)
        IN  /\ last'.loader_called <=> ~fresh
            /\ fresh => /\ cached_data' = cached_data
                        /\ last'.df = cached_data[key].data
            /\ (~fresh /\ last'.outcome # "raise") =>
                   cached_data'[key] = [data |-> last'.outcome, timestamp |-> now']
      ]_vars

\* C17: the session starts with an empty cache and an empty ledger; a run
\* that only navigates leaves both as the previous run left them, and a run
\* that loads keeps every earlier record and every earlier cache key: the
\* initialization block never resets a container that exists.
C17_SessionLifecycle ==
    [][/\ session_keys = {} => (cached_data = <<>> /\ download_history = <<>>)
       /\ last'.op = "show_home_page" =>
              (cached_data' = cached_data /\ download_history' = download_history)
       /\ last'.op \in {"show_mifid_explorer", "show_firds_explorer"} =>
              /\ IsPrefix(download_history, download_history')
              /\ DOMAIN cached_data \subseteq DOMAIN cached_data'
      ]_vars

\* a navigation run of a session whose cache and ledger both hold something
C17_Witness ==
    /\ last.op = "show_home_page"
    /\ session_keys = SessionKeys
    /\ download_history # <<>>
    /\ cached_data # <<>>

\* C18: get_cached_data returns the miss value only when the key has no
\* entry or its entry is not fresh.
C18_HitMissDistinguishable ==
    (JustGot /\ last.ret = None) =>
        \/ last.key \notin DOMAIN cached_data
        \/ now - cached_data[last.key].timestamp >= last.max_age * SecondsPerMinute

\* C19: the ledger gets shorter only in a run of the history page in which
\* the Clear History button read pressed and the confirmation box read
\* checked; no put, lookup, record or other run shortens it.
C19_ClearGatedByConfirmation ==
    [][Len(download_history') < Len(download_history) =>
           (JustShown' /\ last'.clear_btn /\ last'.confirm)]_vars

\* a one-record ledger cleared by a confirmed run while the cache holds an
\* entry
C19_Witness ==
    /\ JustCleared
    /\ Len(last.shown) = 1
    /\ download_history = <<>>
    /\ DOMAIN cached_data # {}

\* C20: the run started by checking "Confirm deletion", which the user can
\* do only after the run of a Clear History click drew the box, ends with an
\* empty ledger.
C20_ClearReachable ==
    (JustShown /\ last.event = "check_confirm") => download_history = <<>>

\* C22: get_cached_data, hit or miss, leaves every cache entry (payload and
\* timestamp) and the ledger as they were; a hit does not restamp the entry,
\* so once max_age minutes have passed since the cache_data that stored it
\* the lookup misses, however many hits came before.
C22_GetIsReadOnly ==
    [][JustGot' =>
        /\ cached_data' = cached_data
        /\ download_history' = download_history
        /\ (/\ last'.key \in DOMAIN put_log
            /\ now' - put_log[last'.key].at >= last'.max_age * SecondsPerMinute)
               => last'.ret = None
      ]_vars

\* a hit on an entry stored earlier, which still carries the time of its
\* cache_data, with a record in the ledger
C22_Witness ==
    /\ JustGot
    /\ last.ret # None
    /\ cached_data[last.key].timestamp < now
    /\ cached_data[last.key].timestamp = put_log[last.key].at
    /\ download_history # <<>>

\* the run that has just ended was a pressed load of one of the four
\* loading pages and got past the availability check
JustLoaded == last.op \in LoadPages /\ ~last.early_return

\* C21: when the loader raises during a MiFID, FIRDS, SSR or FCA FIRDS load,
\* the run leaves the cache and the ledger as it found them and ends with
\* the error shown on the page.
C21_FailedLoadLeavesState ==
    [][(JustLoaded' /\ last'.loader_called /\ last'.outcome = "raise") =>
        /\ cached_data' = cached_data
        /\ download_history' = download_history
        /\ last'.error
      ]_vars

\* a failed SSR load in a session whose cache and ledger both hold something
C21_Witness ==
    /\ JustLoaded
    /\ last.op = "show_ssr_explorer"
    /\ last.outcome = "raise"
    /\ cached_data # <<>>
    /\ download_history # <<>>

\* C23: in a session without the esma_data_py package st.session_state
\* never holds a loader, every run of a loading page returns at its
\* availability check, and the cache and the ledger stay empty.
C23_UnavailablePackage ==
    ~ESMA_DATA_AVAILABLE =>
        /\ "esma_loader" \notin session_keys
        /\ last.op \in LoadPages => last.early_return
        /\ cached_data = <<>>
        /\ download_history = <<>>
        /\ retrievals = 0

\* the MiFID load pressed in a session without the package, after the
\* initialization block has run
C23_Witness ==
    /\ ~ESMA_DATA_AVAILABLE
    /\ last.op = "show_mifid_explorer"
    /\ last.early_return
    /\ session_keys = {"cached_data", "download_history"}

\* C24: every cache key is a MiFID fingerprint, and a FIRDS, SSR or FCA
\* FIRDS load always calls the loader and leaves the cache as it was.
C24_OnlyMiFIDTouchesCache ==
    [][/\ DOMAIN cached_data' \subseteq Fingerprints
       /\ (JustLoaded' /\ last'.op # "show_mifid_explorer") =>
              (last'.loader_called /\ cached_data' = cached_data)
      ]_vars

\* a successful FCA FIRDS load in a session whose cache holds a fresh MiFID
\* entry
C24_Witness ==
    /\ JustLoaded
    /\ last.op = "show_fca_firds_explorer"
    /\ last.outcome = "df_a"
    /\ \E k \in DOMAIN cached_data :
           /\ cached_data[k].timestamp = now
           /\ cached_data[k].data = "df_a"
    /\ Len(download_history) = 2

\* C25: a batch run makes max(total_jobs, 0) iterations, every reported
\* progress is a fraction in (0, 1] and the last one is 1, also for a job
\* count of zero or less; the run leaves the cache and the ledger as they
\* were.
C25_BatchTerminates ==
    [][last'.op = "show_batch_processing" =>
        LET n == last'.total_jobs
            progress == last'.progress
        IN  /\ Len(progress) = IF n > 0 THEN n ELSE 0
            /\ \A k \in 1..Len(progress) :
                   /\ progress[k][2] = n
                   /\ 0 < progress[k][1]
                   /\ progress[k][1] <= progress[k][2]
            /\ Len(progress) > 0 => progress[Len(progress)][1] = n
            /\ cached_data' = cached_data
            /\ download_history' = download_history
      ]_vars

\* a batch run whose end date precedes its start date by more than one
\* period, so that the job count is negative, in a session with a cache
\* entry and a record
C25_Witness ==
    /\ last.op = "show_batch_processing"
    /\ last.total_jobs < 0
    /\ last.progress = <<>>
    /\ cached_data # <<>>
    /\ download_history # <<>>

\* a batch run of several jobs
C25_WitnessJobs ==
    /\ last.op = "show_batch_processing"
    /\ last.total_jobs > 1
    /\ Len(last.progress) = last.total_jobs
    /\ download_history # <<>>

=============================================================================
